---------------------------- MODULE Spec2Model ----------------------------
(***************************************************************************)
(* Model of the CORFO APL ETL pipeline: the transformation step library    *)
(* (src/src/etl/transformers.py), the dataset runner and the coordinator   *)
(* (src/src/etl/pipeline.py), the registry (src/src/etl/config.py), the    *)
(* yearly summary merger (src/src/etl/post_processors.py) and run_etl      *)
(* (src/main.py).                                                          *)
(*                                                                         *)
(* A Python string is a sequence of one-character strings; a DataFrame is  *)
(* a record [cols, rows, index]: the column labels in order, the rows in   *)
(* order, each row a sequence of cells aligned with cols, and the row      *)
(* labels aligned with rows.                                               *)
(***************************************************************************)
EXTENDS Integers, Sequences, FiniteSets, TLC

VARIABLES
    header,     \* SpecNames: the raw header given to to_snake
    history,    \* SpecNames: the successive outputs of to_snake
    tin,        \* SpecSteps: the frame handed to a transformation
    tout,       \* SpecSteps: what the transformation returned or raised
    step,       \* SpecSteps: the transformation applied (NoStep before)
    sources,    \* the raw files: source path -> [exists, df]
    disk,       \* the output files: path -> the contents written, in order
    pc,         \* where run_etl is
    ds,         \* ETLPipeline.run: position in dataset_configs
    ti,         \* DatasetPipeline.run: the next transformation to apply
    dataframe,  \* DatasetPipeline.run: the local dataframe
    results,    \* ETLPipeline.run: dataset name -> DatasetResult
    err,        \* the exception that ended the run ("none" so far)
    runners     \* SpecAnyOrder: per DatasetPipeline, where its run is

vars == <<header, history, tin, tout, step, sources, disk, pc, ds, ti, dataframe, results, err,
          runners>>

(***************************************************************************)
(* Bounds                                                                  *)
(***************************************************************************)
MaxLen == 3
MaxRows == 2
MaxYearRows == 2

(***************************************************************************)
(* Strings                                                                 *)
(***************************************************************************)
\* str.strip() with no argument removes whitespace at both ends.
Whitespace == {" ", "\t"}

\* str.lower(), one character at a time.
LowerChar(c) ==
    CASE c = "A" -> "a" [] c = "B" -> "b" [] c = "C" -> "c" [] c = "D" -> "d"
      [] c = "E" -> "e" [] c = "F" -> "f" [] c = "G" -> "g" [] c = "H" -> "h"
      [] c = "I" -> "i" [] c = "J" -> "j" [] c = "K" -> "k" [] c = "L" -> "l"
      [] c = "M" -> "m" [] c = "N" -> "n" [] c = "O" -> "o" [] c = "P" -> "p"
      [] c = "Q" -> "q" [] c = "R" -> "r" [] c = "S" -> "s" [] c = "T" -> "t"
      [] c = "U" -> "u" [] c = "V" -> "v" [] c = "W" -> "w" [] c = "X" -> "x"
      [] c = "Y" -> "y" [] c = "Z" -> "z" [] c = "Á" -> "á" [] c = "É" -> "é"
      [] c = "Í" -> "í" [] c = "Ó" -> "ó" [] c = "Ú" -> "ú" [] c = "Ñ" -> "ñ"
      [] OTHER -> c

Lower(s) == [i \in 1..Len(s) |-> LowerChar(s[i])]

RECURSIVE LStrip(_, _)
LStrip(s, chars) ==
    IF s # <<>> /\ Head(s) \in chars THEN LStrip(Tail(s), chars) ELSE s

RECURSIVE RStrip(_, _)
RStrip(s, chars) ==
    IF s # <<>> /\ s[Len(s)] \in chars
    THEN RStrip(SubSeq(s, 1, Len(s) - 1), chars)
    ELSE s

Strip(s, chars) == RStrip(LStrip(s, chars), chars)

\* str.replace(old, new) for a one-character old.
ReplaceChar(s, old, new) == [i \in 1..Len(s) |-> IF s[i] = old THEN new ELSE s[i]]

\* One pass of clean_value.replace("__", "_"): leftmost, non-overlapping.
RECURSIVE ReplaceDoubleUnderscore(_)
ReplaceDoubleUnderscore(s) ==
    IF Len(s) < 2 THEN s
    ELSE IF s[1] = "_" /\ s[2] = "_"
         THEN <<"_">> \o ReplaceDoubleUnderscore(SubSeq(s, 3, Len(s)))
         ELSE <<s[1]>> \o ReplaceDoubleUnderscore(Tail(s))

HasDoubleUnderscore(s) == \E i \in 1..(Len(s) - 1) : s[i] = "_" /\ s[i + 1] = "_"

\* while "__" in clean_value: clean_value = clean_value.replace("__", "_")
RECURSIVE CollapseUnderscores(_)
CollapseUnderscores(s) ==
    IF HasDoubleUnderscore(s)
    THEN CollapseUnderscores(ReplaceDoubleUnderscore(s))
    ELSE s

FoldAccents(s) ==
    ReplaceChar(ReplaceChar(ReplaceChar(ReplaceChar(ReplaceChar(s,
        "á", "a"), "é", "e"), "í", "i"), "ó", "o"), "ú", "u")

\* Variant that replaces the accented letters before lowercasing.
to_snake_FoldsFirst(value) ==
    LET v1 == ReplaceChar(Strip(value, Whitespace), " ", "_")
        v2 == ReplaceChar(v1, "-", "_")
        v3 == FoldAccents(v2)
        v4 == Lower(ReplaceChar(v3, "ñ", "n"))
        v5 == CollapseUnderscores(v4)
    IN  Strip(v5, {"_"})

to_snake(value) ==
    LET v1 == ReplaceChar(Lower(Strip(value, Whitespace)), " ", "_")
        v2 == ReplaceChar(v1, "-", "_")
        v3 == FoldAccents(v2)
        v4 == ReplaceChar(v3, "ñ", "n")
        v5 == CollapseUnderscores(v4)
    IN  Strip(v5, {"_"})

(***************************************************************************)
(* Cells and frames                                                        *)
(*                                                                         *)
(* A cell is [k, s, n]: k = "na" (NaN), "str" (s its characters), "int"    *)
(* (n its value), "float" (n its value in tenths) or "inf".  A frame is    *)
(* [cols, rows, index]: index holds the row labels, aligned with rows.     *)
(***************************************************************************)
NA == [k |-> "na", s |-> <<>>, n |-> 0]
StrCell(chars) == [k |-> "str", s |-> chars, n |-> 0]
IntCell(v) == [k |-> "int", s |-> <<>>, n |-> v]
FloatCell(tenths) == [k |-> "float", s |-> <<>>, n |-> tenths]
InfCell == [k |-> "inf", s |-> <<>>, n |-> 0]

IsNa(c) == c.k = "na"

NoTable == [cols |-> <<>>, rows |-> <<>>, index |-> <<>>]

\* pd.read_csv gives a RangeIndex 0..n-1; reset_index(drop=True) restores it.
RangeIndex(n) == [i \in 1..n |-> i - 1]

Frame(cols, rows) == [cols |-> cols, rows |-> rows, index |-> RangeIndex(Len(rows))]

\* A step either returns a frame or raises.
Ok(df) == [err |-> "none", df |-> df]
Raise(e) == [err |-> e, df |-> NoTable]

ColPositions(df, name) == {j \in 1..Len(df.cols) : df.cols[j] = name}

\* dataframe[column]: the cells of the one column carrying that label.
Column(df, name) ==
    LET j == CHOOSE j \in ColPositions(df, name) : TRUE
    IN  [i \in 1..Len(df.rows) |-> df.rows[i][j]]

RECURSIVE MaskPositions(_, _)
MaskPositions(mask, i) ==
    IF i > Len(mask) THEN <<>>
    ELSE (IF mask[i] THEN <<i>> ELSE <<>>) \o MaskPositions(mask, i + 1)

\* The rows at the given positions, in that order, with their labels.
TakeRows(df, order) ==
    [cols  |-> df.cols,
     rows  |-> [i \in 1..Len(order) |-> df.rows[order[i]]],
     index |-> [i \in 1..Len(order) |-> df.index[order[i]]]]

\* dataframe.loc[mask]
Loc(df, mask) == TakeRows(df, MaskPositions(mask, 1))

\* The columns at the given positions, in that order.
TakeCols(df, order) ==
    [cols  |-> [j \in 1..Len(order) |-> df.cols[order[j]]],
     rows  |-> [i \in 1..Len(df.rows) |->
                   [j \in 1..Len(order) |-> df.rows[i][order[j]]]],
     index |-> df.index]

(***************************************************************************)
(* Numbers: pd.to_numeric(errors="coerce"), fillna(0), astype(int), str()  *)
(***************************************************************************)
Digits == {"0", "1", "2", "3", "4", "5", "6", "7", "8", "9"}

DigitVal(c) ==
    CASE c = "0" -> 0 [] c = "1" -> 1 [] c = "2" -> 2 [] c = "3" -> 3
      [] c = "4" -> 4 [] c = "5" -> 5 [] c = "6" -> 6 [] c = "7" -> 7
      [] c = "8" -> 8 [] c = "9" -> 9

DigitChar(d) == <<"0", "1", "2", "3", "4", "5", "6", "7", "8", "9">>[d + 1]

IsDigits(u) == u # <<>> /\ \A i \in 1..Len(u) : u[i] \in Digits

RECURSIVE DecVal(_)
DecVal(u) ==
    IF u = <<>> THEN 0
    ELSE DecVal(SubSeq(u, 1, Len(u) - 1)) * 10 + DigitVal(u[Len(u)])

\* The text of a cell as a number: surrounding whitespace is skipped, an
\* unsigned integer or a decimal with one fractional digit is parsed, "inf"
\* in any case is infinity, anything else is NaN.
ParseNumber(s) ==
    LET t == Strip(s, Whitespace)
        n == Len(t)
    IN  IF IsDigits(t) THEN IntCell(DecVal(t))
        ELSE IF n >= 3 /\ t[n - 1] = "." /\ t[n] \in Digits
                /\ IsDigits(SubSeq(t, 1, n - 2))
             THEN FloatCell(DecVal(SubSeq(t, 1, n - 2)) * 10 + DigitVal(t[n]))
        ELSE IF Lower(t) = <<"i", "n", "f">> THEN InfCell
        ELSE NA

\* pd.to_numeric(series, errors="coerce"), cell by cell.
ToNumeric(c) == IF c.k = "str" THEN ParseNumber(c.s) ELSE c

\* Variant without .fillna(0): a missing value stays missing.
FillZeroAsInt_KeepsMissing(v) ==
    CASE v.k = "float" -> IntCell(v.n \div 10)
      [] OTHER -> v

\* .fillna(0).astype(int) on a numeric cell (astype raises on inf: see
\* IntegerCast).
FillZeroAsInt(v) ==
    CASE v.k = "na" -> IntCell(0)
      [] v.k = "float" -> IntCell(v.n \div 10)
      [] OTHER -> v

RECURSIVE IntToStr(_)
IntToStr(v) ==
    IF v < 10 THEN <<DigitChar(v)>>
    ELSE IntToStr(v \div 10) \o <<DigitChar(v % 10)>>

\* series.astype(str), cell by cell.
StrOf(c) ==
    CASE c.k = "str" -> c.s
      [] c.k = "na" -> <<"n", "a", "n">>
      [] c.k = "int" -> IntToStr(c.n)
      [] c.k = "float" -> IntToStr(c.n \div 10) \o <<".", DigitChar(c.n % 10)>>
      [] c.k = "inf" -> <<"i", "n", "f">>

(***************************************************************************)
(* The transformation steps (src/src/etl/transformers.py)                  *)
(***************************************************************************)
\* dataframe.dropna(axis=1, how="all")
drop_completely_empty_columns(df) ==
    LET keep == [j \in 1..Len(df.cols) |->
                    \E i \in 1..Len(df.rows) : ~IsNa(df.rows[i][j])]
    IN  Ok(TakeCols(df, MaskPositions(keep, 1)))

\* Variant with how="any": a row with one missing value is dropped.
drop_completely_empty_rows_Any(df) ==
    LET keep == [i \in 1..Len(df.rows) |->
                    \A j \in 1..Len(df.cols) : ~IsNa(df.rows[i][j])]
    IN  Ok(Loc(df, keep))

\* dataframe.dropna(axis=0, how="all")
drop_completely_empty_rows(df) ==
    LET keep == [i \in 1..Len(df.rows) |->
                    \E j \in 1..Len(df.cols) : ~IsNa(df.rows[i][j])]
    IN  Ok(Loc(df, keep))

\* dataframe.rename(columns={column: to_snake(str(column)) ...})
standardize_column_names(df) ==
    Ok([df EXCEPT !.cols = [j \in 1..Len(df.cols) |-> to_snake(df.cols[j])]])

\* Variant with errors="raise": a key that labels no column is a KeyError.
rename_Strict(df, mapping) ==
    IF \E key \in DOMAIN mapping : ColPositions(df, key) = {}
    THEN Raise("KeyError")
    ELSE Ok([df EXCEPT !.cols = [j \in 1..Len(df.cols) |->
            IF df.cols[j] \in DOMAIN mapping THEN mapping[df.cols[j]]
            ELSE df.cols[j]]])

\* Variant that keeps only the columns the mapping names.
rename_DropsUnmapped(df, mapping) ==
    LET kept == MaskPositions([j \in 1..Len(df.cols) |-> df.cols[j] \in DOMAIN mapping], 1)
        sub  == TakeCols(df, kept)
    IN  Ok([sub EXCEPT !.cols = [j \in 1..Len(kept) |-> mapping[sub.cols[j]]]])

\* dataframe.rename(columns=mapping): labels that are keys are replaced, the
\* others kept; a key that labels no column is ignored (errors="ignore").
rename(df, mapping) ==
    Ok([df EXCEPT !.cols = [j \in 1..Len(df.cols) |->
            IF df.cols[j] \in DOMAIN mapping THEN mapping[df.cols[j]]
            ELSE df.cols[j]]])

\* dataframe[column] raises KeyError for an absent label; with a repeated
\* label it is a DataFrame, which pd.to_numeric and .str reject.
ColumnError(df, column, dupError) ==
    IF ColPositions(df, column) = {} THEN "KeyError"
    ELSE IF Cardinality(ColPositions(df, column)) > 1 THEN dupError
    ELSE "none"

\* Variant that writes the parsed numbers back into the column.
filter_rows_with_numeric_column_Coerces(df, column) ==
    IF ColumnError(df, column, "TypeError") # "none"
    THEN Raise(ColumnError(df, column, "TypeError"))
    ELSE LET col == Column(df, column)
             j == CHOOSE j \in ColPositions(df, column) : TRUE
             kept == Loc(df, [i \in 1..Len(col) |-> ~IsNa(ToNumeric(col[i]))])
         IN  Ok([kept EXCEPT !.rows = [i \in 1..Len(kept.rows) |->
                    [kept.rows[i] EXCEPT ![j] = ToNumeric(kept.rows[i][j])]]])

filter_rows_with_numeric_column(df, column) ==
    IF ColumnError(df, column, "TypeError") # "none"
    THEN Raise(ColumnError(df, column, "TypeError"))
    ELSE LET col == Column(df, column)
         IN  Ok(Loc(df, [i \in 1..Len(col) |-> ~IsNa(ToNumeric(col[i]))]))

\* Variant that drops the rows whose value does not parse instead of
\* filling them with 0.
IntegerCast_DropsUnparsable(df, column) ==
    IF ColumnError(df, column, "TypeError") # "none"
    THEN Raise(ColumnError(df, column, "TypeError"))
    ELSE LET col == Column(df, column)
             j == CHOOSE j \in ColPositions(df, column) : TRUE
             kept == Loc(df, [i \in 1..Len(col) |-> ToNumeric(col[i]).k \in {"int", "float"}])
         IN  Ok([kept EXCEPT !.rows = [i \in 1..Len(kept.rows) |->
                    [kept.rows[i] EXCEPT ![j] = FillZeroAsInt(ToNumeric(kept.rows[i][j]))]]])

\* result[column] = pd.to_numeric(result[column], errors="coerce")
\*                     .fillna(0).astype(int)
IntegerCast(df, column) ==
    IF ColumnError(df, column, "TypeError") # "none"
    THEN Raise(ColumnError(df, column, "TypeError"))
    ELSE LET col == Column(df, column)
             j == CHOOSE j \in ColPositions(df, column) : TRUE
         IN  IF \E i \in 1..Len(col) : ToNumeric(col[i]).k = "inf"
             THEN Raise("IntCastingNaNError")
             ELSE Ok([df EXCEPT !.rows = [i \in 1..Len(df.rows) |->
                        [df.rows[i] EXCEPT ![j] = FillZeroAsInt(ToNumeric(col[i]))]]])

RECURSIVE enforce_integer_columns(_, _)
enforce_integer_columns(df, columns) ==
    IF columns = <<>> THEN Ok(df)
    ELSE LET r == IntegerCast(df, Head(columns))
         IN  IF r.err # "none" THEN r
             ELSE enforce_integer_columns(r.df, Tail(columns))

cast(df, column) == IntegerCast(df, column)

\* dataframe.dropna(subset=required_columns, how="any")
drop_nulls(df, columns) ==
    IF \E c \in 1..Len(columns) : ColPositions(df, columns[c]) = {}
    THEN Raise("KeyError")
    ELSE Ok(Loc(df, [i \in 1..Len(df.rows) |->
            \A c \in 1..Len(columns) :
                \A j \in ColPositions(df, columns[c]) : ~IsNa(df.rows[i][j])]))

\* mask = dataframe[column].astype(str).str.lower().isin(allowed), where
\* allowed is keyed by the lowercase of each allowed value.
\* Variant that keeps the lowercased text in the column it filters on.
filter_values_Lowercases(df, column, allowed_values) ==
    IF ColumnError(df, column, "AttributeError") # "none"
    THEN Raise(ColumnError(df, column, "AttributeError"))
    ELSE LET col == Column(df, column)
             j == CHOOSE j \in ColPositions(df, column) : TRUE
             allowed == {Lower(allowed_values[a]) : a \in 1..Len(allowed_values)}
             kept == Loc(df, [i \in 1..Len(col) |-> Lower(StrOf(col[i])) \in allowed])
         IN  Ok([kept EXCEPT !.rows = [i \in 1..Len(kept.rows) |->
                    [kept.rows[i] EXCEPT ![j] = StrCell(Lower(StrOf(kept.rows[i][j])))]]])

filter_values(df, column, allowed_values) ==
    IF ColumnError(df, column, "AttributeError") # "none"
    THEN Raise(ColumnError(df, column, "AttributeError"))
    ELSE LET col == Column(df, column)
             allowed == {Lower(allowed_values[a]) : a \in 1..Len(allowed_values)}
         IN  Ok(Loc(df, [i \in 1..Len(col) |-> Lower(StrOf(col[i])) \in allowed]))

(***************************************************************************)
(* sort_by_column: sort_values(by=column, ascending=ascending) with the    *)
(* default kind="quicksort", then reset_index(drop=True).  quicksort is    *)
(* not a stable sort: rows whose keys compare equal may come out in any    *)
(* order.  NaN keys are placed last, in their input order.                 *)
(***************************************************************************)
\* Characters in code point order, for comparing str keys.
CharOrder ==
    <<"\t", " ", "-", ".", "0", "1", "2", "3", "4", "5", "6", "7", "8", "9",
      "A", "B", "C", "D", "E", "F", "G", "H", "I", "J", "K", "L", "M", "N",
      "O", "P", "Q", "R", "S", "T", "U", "V", "W", "X", "Y", "Z", "_",
      "a", "b", "c", "d", "e", "f", "g", "h", "i", "j", "k", "l", "m", "n",
      "o", "p", "q", "r", "s", "t", "u", "v", "w", "x", "y", "z",
      "Á", "É", "Í", "Ñ", "Ó", "Ú", "á", "é", "í", "ñ", "ó", "ú">>

CharRank(c) == CHOOSE i \in 1..Len(CharOrder) : CharOrder[i] = c

RECURSIVE StrLess(_, _)
StrLess(a, b) ==
    IF b = <<>> THEN FALSE
    ELSE IF a = <<>> THEN TRUE
    ELSE IF a[1] = b[1] THEN StrLess(Tail(a), Tail(b))
    ELSE CharRank(a[1]) < CharRank(b[1])

Tenths(c) == IF c.k = "int" THEN c.n * 10 ELSE c.n

\* a < b for two keys that are not NaN and are both text or both numbers.
CellLess(a, b) ==
    IF a.k = "str" THEN StrLess(a.s, b.s)
    ELSE IF a.k = "inf" THEN FALSE
    ELSE IF b.k = "inf" THEN TRUE
    ELSE Tenths(a) < Tenths(b)

KeyBefore(a, b, ascending) == IF ascending THEN CellLess(a, b) ELSE CellLess(b, a)

\* The sequence without the first occurrence of the element.
RECURSIVE RemoveOne(_, _)
RemoveOne(seq, x) ==
    IF Head(seq) = x THEN Tail(seq) ELSE <<Head(seq)>> \o RemoveOne(Tail(seq), x)

\* Every arrangement of the rows in which no row comes after a row whose
\* key (the cell at position j) must follow it: rows whose keys compare
\* equal are in any order.
RECURSIVE SortedArrangements(_, _, _)
SortedArrangements(rows, j, ascending) ==
    IF rows = <<>> THEN {<<>>}
    ELSE LET all == {rows[i] : i \in 1..Len(rows)}
             firsts == {r \in all : \A q \in all : ~KeyBefore(q[j], r[j], ascending)}
         IN  UNION {{<<r>> \o rest :
                        rest \in SortedArrangements(RemoveOne(rows, r), j, ascending)} :
                    r \in firsts}

\* Variant without reset_index: the rows keep the labels they had.
ResetIndex_Keeps(df) == df

\* reset_index(drop=True)
ResetIndex(df) == [df EXCEPT !.index = RangeIndex(Len(df.rows))]

\* The row sequences sort_values may produce: the rows whose key is not NaN
\* sorted, the rows whose key is NaN after them in their input order.
SortValues(rows, j, ascending) ==
    LET present == SelectSeq(rows, LAMBDA r : ~IsNa(r[j]))
        nans == SelectSeq(rows, LAMBDA r : IsNa(r[j]))
    IN  {p \o nans : p \in SortedArrangements(present, j, ascending)}

\* The set of results sort_by_column may return; the row labels are
\* renumbered, so a result is the labels and the rows in their new order.
sort_by_column(df, column, ascending) ==
    IF ColPositions(df, column) = {} THEN {Raise("KeyError")}
    ELSE IF Cardinality(ColPositions(df, column)) > 1 THEN {Raise("ValueError")}
    ELSE LET j == CHOOSE j \in ColPositions(df, column) : TRUE
             keys == Column(df, column)
             present == {i \in 1..Len(keys) : ~IsNa(keys[i])}
         IN  IF \E i, i2 \in present : (keys[i].k = "str") # (keys[i2].k = "str")
             THEN {Raise("TypeError")}
             ELSE {Ok(ResetIndex([df EXCEPT !.rows = p])) :
                      p \in SortValues(df.rows, j, ascending)}

(***************************************************************************)
(* A transformation (an element of DatasetConfig.transformations) is a     *)
(* record naming the step and the arguments its factory closed over.       *)
(***************************************************************************)
NoMapping == <<>>

Transformation(kind, column, columns, mapping, ascending) ==
    [kind |-> kind, column |-> column, columns |-> columns,
     mapping |-> mapping, ascending |-> ascending]

DropColumns == Transformation("drop_completely_empty_columns", <<>>, <<>>, NoMapping, TRUE)
DropRows == Transformation("drop_completely_empty_rows", <<>>, <<>>, NoMapping, TRUE)
Standardize == Transformation("standardize_column_names", <<>>, <<>>, NoMapping, TRUE)
make_column_renamer(mapping) == Transformation("rename", <<>>, <<>>, mapping, TRUE)
make_numeric_row_filter(column) == Transformation("filter_rows", column, <<>>, NoMapping, TRUE)
make_integer_enforcer(columns) == Transformation("enforce", <<>>, columns, NoMapping, TRUE)
make_sorter(column, ascending) == Transformation("sort", column, <<>>, NoMapping, ascending)
make_integer_column(column) == Transformation("cast", column, <<>>, NoMapping, TRUE)
make_non_null_filter(columns) == Transformation("drop_nulls", <<>>, columns, NoMapping, TRUE)
make_value_filter(column, allowed_values) ==
    Transformation("filter_values", column, allowed_values, NoMapping, TRUE)
NoStep == Transformation("none", <<>>, <<>>, NoMapping, TRUE)

\* transformation(dataframe): the set of results the call may have.
Apply(t, df) ==
    CASE t.kind = "drop_completely_empty_columns" -> {drop_completely_empty_columns(df)}
      [] t.kind = "drop_completely_empty_rows" -> {drop_completely_empty_rows(df)}
      [] t.kind = "standardize_column_names" -> {standardize_column_names(df)}
      [] t.kind = "rename" -> {rename(df, t.mapping)}
      [] t.kind = "filter_rows" -> {filter_rows_with_numeric_column(df, t.column)}
      [] t.kind = "enforce" -> {enforce_integer_columns(df, t.columns)}
      [] t.kind = "sort" -> sort_by_column(df, t.column, t.ascending)
      [] t.kind = "cast" -> {cast(df, t.column)}
      [] t.kind = "drop_nulls" -> {drop_nulls(df, t.columns)}
      [] t.kind = "filter_values" -> {filter_values(df, t.column, t.columns)}

(***************************************************************************)
(* What a call leaves in the frame object it was given.  The objects of a  *)
(* call are the argument ("dataframe") and, in the integer cast and the    *)
(* enforcer, "result"; result[column] = ... writes into the object that    *)
(* result refers to.  Every other step only calls methods that return a    *)
(* new frame (dropna, rename, loc, sort_values, reset_index without        *)
(* inplace), so it writes into no object.                                  *)
(***************************************************************************)
Heap(df) == [dataframe |-> df, result |-> NoTable]

\* Variant of result = dataframe.copy() without the copy: result is the
\* argument itself.
copy_Alias(heap, ref) == [heap |-> heap, ref |-> ref]

\* result = dataframe.copy(): a new object holding what the argument holds.
copy(heap, ref) == [heap |-> [heap EXCEPT !.result = heap[ref]], ref |-> "result"]

\* for column in columns: result[column] = pd.to_numeric(result[column],
\*     errors="coerce").fillna(0).astype(int), on the object ref names; an
\* exception leaves the loop with the object as the earlier columns left it.
RECURSIVE AssignIntegerColumns(_, _, _)
AssignIntegerColumns(heap, ref, columns) ==
    IF columns = <<>> THEN heap
    ELSE LET r == IntegerCast(heap[ref], Head(columns))
         IN  IF r.err # "none" THEN heap
             ELSE AssignIntegerColumns([heap EXCEPT ![ref] = r.df], ref, Tail(columns))

\* The argument object after transformation(dataframe) has returned or
\* raised.
ArgumentAfter(t, df) ==
    IF t.kind \in {"cast", "enforce"}
    THEN LET made == copy(Heap(df), "dataframe")
             columns == IF t.kind = "cast" THEN <<t.column>> ELSE t.columns
         IN  AssignIntegerColumns(made.heap, made.ref, columns).dataframe
    ELSE df

(***************************************************************************)
(* The column labels and values the registry and the merger name           *)
(* (src/src/etl/config.py, src/src/etl/post_processors.py)                 *)
(***************************************************************************)
N_year == <<"y", "e", "a", "r">>
N_installations ==
    <<"i", "n", "s", "t", "a", "l", "l", "a", "t", "i", "o", "n", "s">>
N_companies == <<"c", "o", "m", "p", "a", "n", "i", "e", "s">>
N_sector == <<"s", "e", "c", "t", "o", "r">>
N_company_size ==
    <<"c", "o", "m", "p", "a", "n", "y", "_", "s", "i", "z", "e">>
N_ano_adhesion_establecimiento ==
    <<"a", "n", "o", "_", "a", "d", "h", "e", "s", "i", "o", "n", "_", "e",
      "s", "t", "a", "b", "l", "e", "c", "i", "m", "i", "e", "n", "t", "o">>
N_instalaciones_adheridas ==
    <<"i", "n", "s", "t", "a", "l", "a", "c", "i", "o", "n", "e", "s", "_",
      "a", "d", "h", "e", "r", "i", "d", "a", "s">>
N_empresas_adheridas ==
    <<"e", "m", "p", "r", "e", "s", "a", "s", "_", "a", "d", "h", "e", "r",
      "i", "d", "a", "s">>
N_sector_economico ==
    <<"s", "e", "c", "t", "o", "r", "_", "e", "c", "o", "n", "o", "m", "i",
      "c", "o">>
N_instalaciones_adheridas_por_sector ==
    <<"i", "n", "s", "t", "a", "l", "a", "c", "i", "o", "n", "e", "s", "_",
      "a", "d", "h", "e", "r", "i", "d", "a", "s", "_", "p", "o", "r", "_",
      "s", "e", "c", "t", "o", "r">>
N_tamano_empresa ==
    <<"t", "a", "m", "a", "n", "o", "_", "e", "m", "p", "r", "e", "s", "a">>
N_empresas == <<"e", "m", "p", "r", "e", "s", "a", "s">>
N_instalacion == <<"i", "n", "s", "t", "a", "l", "a", "c", "i", "o", "n">>
N_ano_certificacion_del_establecimiento ==
    <<"a", "n", "o", "_", "c", "e", "r", "t", "i", "f", "i", "c", "a", "c",
      "i", "o", "n", "_", "d", "e", "l", "_", "e", "s", "t", "a", "b", "l",
      "e", "c", "i", "m", "i", "e", "n", "t", "o">>
N_instalaciones_certificadas ==
    <<"i", "n", "s", "t", "a", "l", "a", "c", "i", "o", "n", "e", "s", "_",
      "c", "e", "r", "t", "i", "f", "i", "c", "a", "d", "a", "s">>
N_empresas_certificadas ==
    <<"e", "m", "p", "r", "e", "s", "a", "s", "_", "c", "e", "r", "t", "i",
      "f", "i", "c", "a", "d", "a", "s">>
N_instalaciones_certificadas_por_sector ==
    <<"i", "n", "s", "t", "a", "l", "a", "c", "i", "o", "n", "e", "s", "_",
      "c", "e", "r", "t", "i", "f", "i", "c", "a", "d", "a", "s", "_", "p",
      "o", "r", "_", "s", "e", "c", "t", "o", "r">>
N_installations_adhesion ==
    <<"i", "n", "s", "t", "a", "l", "l", "a", "t", "i", "o", "n", "s", "_",
      "a", "d", "h", "e", "s", "i", "o", "n">>
N_companies_adhesion ==
    <<"c", "o", "m", "p", "a", "n", "i", "e", "s", "_", "a", "d", "h", "e",
      "s", "i", "o", "n">>
N_installations_certification ==
    <<"i", "n", "s", "t", "a", "l", "l", "a", "t", "i", "o", "n", "s", "_",
      "c", "e", "r", "t", "i", "f", "i", "c", "a", "t", "i", "o", "n">>
N_companies_certification ==
    <<"c", "o", "m", "p", "a", "n", "i", "e", "s", "_", "c", "e", "r", "t",
      "i", "f", "i", "c", "a", "t", "i", "o", "n">>

V_PEQUENA == <<"P", "E", "Q", "U", "E", "Ñ", "A">>
V_MICRO == <<"M", "I", "C", "R", "O">>
V_MEDIANA == <<"M", "E", "D", "I", "A", "N", "A">>
V_GRANDE == <<"G", "R", "A", "N", "D", "E">>
V_SSPP == <<"S", "S", "P", "P">>

SuffixAdhesion == <<"_", "a", "d", "h", "e", "s", "i", "o", "n">>
SuffixCertification == <<"_", "c", "e", "r", "t", "i", "f", "i", "c", "a", "t", "i", "o", "n">>

(***************************************************************************)
(* The registry: ETLConfig.build_default (src/src/etl/config.py)           *)
(***************************************************************************)
\* A pathlib.Path under the project root: directory, stem and suffix.
Path(dir, stem) == [dir |-> dir, stem |-> stem, suffix |-> ".csv"]

OutputDir == "data/processed"

DatasetConfig(name, source_path, output_path, transformations) ==
    [name |-> name, source_path |-> source_path, output_path |-> output_path,
     transformations |-> transformations]

AdhesionByYear ==
    DatasetConfig("adhesion_by_year",
        Path(".", "APL - Adhesión x año"),
        Path(OutputDir, "adhesion_by_year"),
        <<DropColumns, DropRows, Standardize,
          make_column_renamer(N_ano_adhesion_establecimiento :> N_year
                              @@ N_instalaciones_adheridas :> N_installations
                              @@ N_empresas_adheridas :> N_companies),
          make_numeric_row_filter(N_year),
          make_integer_column(N_year),
          make_integer_enforcer(<<N_installations, N_companies>>),
          make_sorter(N_year, TRUE)>>)

AdhesionBySector ==
    DatasetConfig("adhesion_by_sector",
        Path(".", "APL - Adhesión x sector"),
        Path(OutputDir, "adhesion_by_sector"),
        <<DropColumns, DropRows, Standardize,
          make_column_renamer(N_sector_economico :> N_sector
                              @@ N_instalaciones_adheridas_por_sector :> N_installations),
          make_integer_column(N_installations),
          make_sorter(N_installations, FALSE)>>)

AdhesionBySize ==
    DatasetConfig("adhesion_by_size",
        Path(".", "APL - Adhesión x tamaño"),
        Path(OutputDir, "adhesion_by_size"),
        <<DropColumns, DropRows, Standardize,
          make_column_renamer(N_tamano_empresa :> N_company_size
                              @@ N_empresas :> N_companies
                              @@ N_instalacion :> N_installations),
          make_non_null_filter(<<N_company_size>>),
          make_value_filter(N_company_size,
                            <<V_PEQUENA, V_MICRO, V_MEDIANA, V_GRANDE, V_SSPP>>),
          make_integer_enforcer(<<N_companies, N_installations>>),
          make_sorter(N_companies, FALSE)>>)

CertificationByYear ==
    DatasetConfig("certification_by_year",
        Path(".", "APL - Certificación x año"),
        Path(OutputDir, "certification_by_year"),
        <<DropColumns, DropRows, Standardize,
          make_column_renamer(N_ano_certificacion_del_establecimiento :> N_year
                              @@ N_instalaciones_certificadas :> N_installations
                              @@ N_empresas_certificadas :> N_companies),
          make_numeric_row_filter(N_year),
          make_integer_column(N_year),
          make_integer_enforcer(<<N_installations, N_companies>>),
          make_sorter(N_year, TRUE)>>)

CertificationBySector ==
    DatasetConfig("certification_by_sector",
        Path(".", "APL - Certificación x sector"),
        Path(OutputDir, "certification_by_sector"),
        <<DropColumns, DropRows, Standardize,
          make_column_renamer(N_sector_economico :> N_sector
                              @@ N_instalaciones_certificadas_por_sector :> N_installations),
          make_integer_column(N_installations),
          make_sorter(N_installations, FALSE)>>)

\* dataset_configs, a dict: its items in insertion order.  Each key is the
\* name of its DatasetConfig.
dataset_configs ==
    <<AdhesionByYear, AdhesionBySector, AdhesionBySize,
      CertificationByYear, CertificationBySector>>

DatasetNames == {dataset_configs[i].name : i \in 1..Len(dataset_configs)}

YearlySummaryPath == Path(OutputDir, "yearly_summary")

(***************************************************************************)
(* build_yearly_summary (src/src/etl/post_processors.py)                   *)
(***************************************************************************)
\* The distinct keys in ascending order (an outer join orders its keys).
RECURSIVE SortedKeys(_)
SortedKeys(S) ==
    IF S = {} THEN <<>>
    ELSE LET m == CHOOSE m \in S : \A x \in S : ~CellLess(x, m)
         IN  <<m>> \o SortedKeys(S \ {m})

\* The rows of the outer join for one key: every pairing of a left and a
\* right row carrying it, or the rows of the one side with NaN for the other.
JoinKey(left, right, lpos, rpos, key) ==
    LET L == MaskPositions([i \in 1..Len(left.rows) |-> left.rows[i][lpos] = key], 1)
        R == MaskPositions([i \in 1..Len(right.rows) |-> right.rows[i][rpos] = key], 1)
        rothers == MaskPositions([j \in 1..Len(right.cols) |-> j # rpos], 1)
        rightPart(i) == [j \in 1..Len(rothers) |-> right.rows[i][rothers[j]]]
        rightNaN == [j \in 1..Len(rothers) |-> NA]
        leftNaN == [j \in 1..Len(left.cols) |-> IF j = lpos THEN key ELSE NA]
    IN  IF R = <<>> THEN [i \in 1..Len(L) |-> left.rows[L[i]] \o rightNaN]
        ELSE IF L = <<>> THEN [i \in 1..Len(R) |-> leftNaN \o rightPart(R[i])]
        ELSE [x \in 1..(Len(L) * Len(R)) |->
                 left.rows[L[((x - 1) \div Len(R)) + 1]]
                     \o rightPart(R[((x - 1) % Len(R)) + 1])]

RECURSIVE JoinKeys(_, _, _, _, _)
JoinKeys(left, right, lpos, rpos, keys) ==
    IF keys = <<>> THEN <<>>
    ELSE JoinKey(left, right, lpos, rpos, Head(keys))
             \o JoinKeys(left, right, lpos, rpos, Tail(keys))

\* left.merge(right, on=on, how="outer", suffixes=(lsuffix, rsuffix)): the
\* columns of left in their order (the key where left has it), then the
\* columns of right other than the key; a label the two sides share (other
\* than the key) gets the side's suffix.
merge(left, right, on, lsuffix, rsuffix) ==
    IF ColPositions(left, on) = {} \/ ColPositions(right, on) = {}
    THEN Raise("KeyError")
    ELSE IF Cardinality(ColPositions(left, on)) > 1
            \/ Cardinality(ColPositions(right, on)) > 1
    THEN Raise("ValueError")
    ELSE LET lpos == CHOOSE j \in ColPositions(left, on) : TRUE
             rpos == CHOOSE j \in ColPositions(right, on) : TRUE
             lothers == {left.cols[j] : j \in 1..Len(left.cols) \ {lpos}}
             rothers == {right.cols[j] : j \in 1..Len(right.cols) \ {rpos}}
             overlap == lothers \cap rothers
             lcols == [j \in 1..Len(left.cols) |->
                          IF j # lpos /\ left.cols[j] \in overlap
                          THEN left.cols[j] \o lsuffix ELSE left.cols[j]]
             rkeep == MaskPositions([j \in 1..Len(right.cols) |-> j # rpos], 1)
             rcols == [j \in 1..Len(rkeep) |->
                          IF right.cols[rkeep[j]] \in overlap
                          THEN right.cols[rkeep[j]] \o rsuffix
                          ELSE right.cols[rkeep[j]]]
             keys == {left.rows[i][lpos] : i \in 1..Len(left.rows)}
                         \cup {right.rows[i][rpos] : i \in 1..Len(right.rows)}
         IN  Ok(Frame(lcols \o rcols,
                      JoinKeys(left, right, lpos, rpos, SortedKeys(keys))))

int_columns ==
    <<N_year, N_installations_adhesion, N_companies_adhesion,
      N_installations_certification, N_companies_certification>>

\* The set of frames build_yearly_summary may write (or the error it raises):
\* the outer join, the five columns cast to integer, sorted by year.
\* Variant with suffixes=("_certification", "_adhesion").
build_yearly_summary_SwapsSuffixes(adhesion_by_year, certification_by_year) ==
    LET merged == merge(adhesion_by_year, certification_by_year, N_year,
                        SuffixCertification, SuffixAdhesion)
        casted == IF merged.err # "none" THEN merged
                  ELSE enforce_integer_columns(merged.df, int_columns)
    IN  IF casted.err # "none" THEN {casted}
        ELSE sort_by_column(casted.df, N_year, TRUE)

build_yearly_summary(adhesion_by_year, certification_by_year) ==
    LET merged == merge(adhesion_by_year, certification_by_year, N_year,
                        SuffixAdhesion, SuffixCertification)
        casted == IF merged.err # "none" THEN merged
                  ELSE enforce_integer_columns(merged.df, int_columns)
    IN  IF casted.err # "none" THEN {casted}
        ELSE sort_by_column(casted.df, N_year, TRUE)

(***************************************************************************)
(* The run: run_etl (src/main.py), ETLPipeline.run and DatasetPipeline.run *)
(* (src/src/etl/pipeline.py), CSVExtractor.extract, CSVLoader.load.        *)
(***************************************************************************)
SourcePaths == {dataset_configs[i].source_path : i \in 1..Len(dataset_configs)}

OutputPaths ==
    {dataset_configs[i].output_path : i \in 1..Len(dataset_configs)}
        \cup {YearlySummaryPath}

File(frame) == [exists |-> TRUE, df |-> frame]
NoFile == [exists |-> FALSE, df |-> NoTable]

\* dataframe.to_csv(path, index=False): the labels and the rows.
Csv(frame) == [cols |-> frame.cols, rows |-> frame.rows]

\* Variant that records the destination's directory as the name.
DatasetResult_NamedByDirectory(dataset_name, frame, output_path) ==
    [dataset_name |-> output_path.dir, dataframe |-> frame,
     output_path |-> output_path]

DatasetResult(dataset_name, frame, output_path) ==
    [dataset_name |-> dataset_name, dataframe |-> frame,
     output_path |-> output_path]

NoResults == <<>>

Config == dataset_configs[ds]

\* Variant that skips a descriptor whose source cannot be read and goes on
\* with the next one.
Extract_SkipsMissing ==
    /\ pc = "extract"
    /\ IF sources[Config.source_path].exists
       THEN /\ dataframe' = sources[Config.source_path].df
            /\ ti' = 1
            /\ pc' = IF Config.transformations = <<>> THEN "load" ELSE "transform"
            /\ ds' = ds
       ELSE /\ IF ds < Len(dataset_configs)
               THEN ds' = ds + 1 /\ pc' = "extract"
               ELSE ds' = ds /\ pc' = "merge"
            /\ UNCHANGED <<dataframe, ti>>
    /\ UNCHANGED <<runners, header, history, tin, tout, step, sources, disk, results, err>>

\* dataframe = self._extractor.extract(): pd.read_csv raises when the file
\* cannot be read.
Extract ==
    /\ pc = "extract"
    /\ IF sources[Config.source_path].exists
       THEN /\ dataframe' = sources[Config.source_path].df
            /\ ti' = 1
            /\ pc' = IF Config.transformations = <<>> THEN "load" ELSE "transform"
            /\ err' = err
       ELSE /\ pc' = "failed"
            /\ err' = "FileNotFoundError"
            /\ UNCHANGED <<dataframe, ti>>
    /\ UNCHANGED <<runners, header, history, tin, tout, step, sources, disk, ds, results>>

\* Variant that swallows a transformation's exception and goes on with the
\* frame it had.
Transform_IgnoresRaise ==
    /\ pc = "transform"
    /\ \E r \in Apply(Config.transformations[ti], dataframe) :
          dataframe' = IF r.err = "none" THEN r.df ELSE dataframe
    /\ ti' = ti + 1
    /\ pc' = IF ti = Len(Config.transformations) THEN "load" ELSE "transform"
    /\ UNCHANGED <<runners, header, history, tin, tout, step, sources, disk, ds, results, err>>

\* Variant whose loop leaves out the transformation after the one it applied.
Transform_SkipsNext ==
    /\ pc = "transform"
    /\ \E r \in Apply(Config.transformations[ti], dataframe) :
          IF r.err = "none"
          THEN /\ dataframe' = r.df
               /\ ti' = IF ti < Len(Config.transformations) THEN ti + 2 ELSE ti + 1
               /\ pc' = IF ti + 1 >= Len(Config.transformations) THEN "load" ELSE "transform"
               /\ err' = err
          ELSE /\ pc' = "failed"
               /\ err' = r.err
               /\ UNCHANGED <<dataframe, ti>>
    /\ UNCHANGED <<runners, header, history, tin, tout, step, sources, disk, ds, results>>

\* dataframe = transformation(dataframe), for the next transformation of
\* the list; an exception leaves the loop, the run and run_etl.
Transform ==
    /\ pc = "transform"
    /\ \E r \in Apply(Config.transformations[ti], dataframe) :
          IF r.err = "none"
          THEN /\ dataframe' = r.df
               /\ ti' = ti + 1
               /\ pc' = IF ti = Len(Config.transformations) THEN "load" ELSE "transform"
               /\ err' = err
          ELSE /\ pc' = "failed"
               /\ err' = r.err
               /\ UNCHANGED <<dataframe, ti>>
    /\ UNCHANGED <<runners, header, history, tin, tout, step, sources, disk, ds, results>>

\* self._loader.load(dataframe)
Load ==
    /\ pc = "load"
    /\ disk' = [disk EXCEPT ![Config.output_path] = Append(@, Csv(dataframe))]
    /\ pc' = "return"
    /\ UNCHANGED <<runners, header, history, tin, tout, step, sources, ds, ti, dataframe, results, err>>

\* to_csv cannot write the destination.
LoadFails ==
    /\ pc = "load"
    /\ pc' = "failed"
    /\ err' = "OSError"
    /\ UNCHANGED <<runners, header, history, tin, tout, step, sources, disk, ds, ti, dataframe, results>>

\* results[dataset_name] = DatasetResult(...), then the next item of
\* dataset_configs, or back in run_etl after the last.
Return ==
    /\ pc = "return"
    /\ results' = (Config.name :> DatasetResult(Config.output_path.stem, dataframe,
                                                Config.output_path))
                      @@ results
    /\ IF ds < Len(dataset_configs)
       THEN ds' = ds + 1 /\ pc' = "extract"
       ELSE ds' = ds /\ pc' = "merge"
    /\ UNCHANGED <<runners, header, history, tin, tout, step, sources, disk, ti, dataframe, err>>

\* run_etl after pipeline.run(): results["adhesion_by_year"] and
\* results["certification_by_year"] are given to build_yearly_summary, which
\* writes yearly_summary.csv.
BuildYearlySummary ==
    /\ pc = "merge"
    /\ IF {"adhesion_by_year", "certification_by_year"} \subseteq DOMAIN results
       THEN \E r \in build_yearly_summary(results["adhesion_by_year"].dataframe,
                                         results["certification_by_year"].dataframe) :
               IF r.err = "none"
               THEN /\ disk' = [disk EXCEPT ![YearlySummaryPath] = Append(@, Csv(r.df))]
                    /\ pc' = "done"
                    /\ err' = err
               ELSE /\ pc' = "failed"
                    /\ err' = r.err
                    /\ disk' = disk
       ELSE /\ pc' = "failed"
            /\ err' = "KeyError"
            /\ disk' = disk
    /\ UNCHANGED <<runners, header, history, tin, tout, step, sources, ds, ti, dataframe, results>>

(***************************************************************************)
(* Spec: one run of run_etl over raw files drawn from a few exports per    *)
(* dataset: well-formed ones, ones lacking a column, and a missing file.   *)
(***************************************************************************)
H_ano_adhesion ==
    <<"A", "ñ", "o", " ", "A", "d", "h", "e", "s", "i", "ó", "n", " ", "E",
      "s", "t", "a", "b", "l", "e", "c", "i", "m", "i", "e", "n", "t", "o">>
H_instalaciones_adheridas ==
    <<"I", "n", "s", "t", "a", "l", "a", "c", "i", "o", "n", "e", "s", " ",
      "A", "d", "h", "e", "r", "i", "d", "a", "s">>
H_empresas_adheridas ==
    <<"E", "m", "p", "r", "e", "s", "a", "s", " ", "A", "d", "h", "e", "r",
      "i", "d", "a", "s">>
H_sector_economico ==
    <<"S", "e", "c", "t", "o", "r", " ", "E", "c", "o", "n", "ó", "m", "i",
      "c", "o">>
H_instalaciones_adheridas_por_sector ==
    <<"I", "n", "s", "t", "a", "l", "a", "c", "i", "o", "n", "e", "s", " ",
      "A", "d", "h", "e", "r", "i", "d", "a", "s", " ", "p", "o", "r", " ",
      "S", "e", "c", "t", "o", "r">>
H_tamano_empresa ==
    <<"T", "a", "m", "a", "ñ", "o", " ", "E", "m", "p", "r", "e", "s", "a">>
H_empresas ==
    <<"E", "m", "p", "r", "e", "s", "a", "s">>
H_instalacion ==
    <<"I", "n", "s", "t", "a", "l", "a", "c", "i", "ó", "n">>
H_ano_certificacion ==
    <<"A", "ñ", "o", " ", "C", "e", "r", "t", "i", "f", "i", "c", "a", "c",
      "i", "ó", "n", " ", "d", "e", "l", " ", "E", "s", "t", "a", "b", "l",
      "e", "c", "i", "m", "i", "e", "n", "t", "o">>
H_instalaciones_certificadas ==
    <<"I", "n", "s", "t", "a", "l", "a", "c", "i", "o", "n", "e", "s", " ",
      "C", "e", "r", "t", "i", "f", "i", "c", "a", "d", "a", "s">>
H_empresas_certificadas ==
    <<"E", "m", "p", "r", "e", "s", "a", "s", " ", "C", "e", "r", "t", "i",
      "f", "i", "c", "a", "d", "a", "s">>
H_instalaciones_certificadas_por_sector ==
    <<"I", "n", "s", "t", "a", "l", "a", "c", "i", "o", "n", "e", "s", " ",
      "C", "e", "r", "t", "i", "f", "i", "c", "a", "d", "a", "s", " ", "p",
      "o", "r", " ", "S", "e", "c", "t", "o", "r">>

\* A column of the export that no mapping names.
H_notas == <<"N", "o", "t", "a", "s">>

Cell2010 == StrCell(<<"2", "0", "1", "0">>)
CellTotal == StrCell(<<"T", "o", "t", "a", "l">>)

RawAdhesionByYear ==
    {File(Frame(<<H_ano_adhesion, H_instalaciones_adheridas, H_empresas_adheridas>>,
                <<<<Cell2010, IntCell(5), IntCell(3)>>,
                  <<CellTotal, IntCell(5), IntCell(3)>>>>)),
     File(Frame(<<H_ano_adhesion, H_instalaciones_adheridas, H_empresas_adheridas>>,
                <<<<IntCell(2011), IntCell(2), NA>>,
                  <<IntCell(2010), IntCell(1), IntCell(1)>>>>)),
     File(Frame(<<H_instalaciones_adheridas, H_empresas_adheridas>>,
                <<<<IntCell(5), IntCell(3)>>>>)),
     File(Frame(<<H_ano_adhesion, H_instalaciones_adheridas, H_empresas_adheridas,
                  H_notas>>,
                <<<<IntCell(2010), IntCell(5), IntCell(3), CellTotal>>>>)),
     NoFile}

RawCertificationByYear ==
    {File(Frame(<<H_ano_certificacion, H_instalaciones_certificadas,
                  H_empresas_certificadas>>,
                <<<<NA, NA, NA>>,
                  <<IntCell(2011), IntCell(4), IntCell(2)>>>>)),
     File(Frame(<<H_ano_certificacion, H_instalaciones_certificadas,
                  H_empresas_certificadas>>,
                <<<<IntCell(2012), IntCell(1), IntCell(1)>>,
                  <<IntCell(2012), IntCell(2), IntCell(1)>>>>)),
     File(Frame(<<H_ano_certificacion, H_instalaciones_certificadas>>,
                <<<<IntCell(2011), IntCell(4)>>>>)),
     File(Frame(<<H_ano_certificacion, H_instalaciones_certificadas,
                  H_empresas_certificadas>>,
                <<<<IntCell(2011), InfCell, IntCell(1)>>>>)),
     NoFile}

CellAgro == StrCell(<<"A", "g", "r", "o">>)
CellPesca == StrCell(<<"P", "e", "s", "c", "a">>)

RawAdhesionBySector ==
    {File(Frame(<<H_sector_economico, H_instalaciones_adheridas_por_sector>>,
                <<<<CellAgro, IntCell(7)>>, <<CellPesca, IntCell(7)>>>>)),
     File(Frame(<<H_sector_economico>>, <<<<CellAgro>>>>)),
     NoFile}

RawCertificationBySector ==
    {File(Frame(<<H_sector_economico, H_instalaciones_certificadas_por_sector>>,
                <<<<CellPesca, NA>>, <<CellAgro, IntCell(3)>>>>)),
     File(Frame(<<H_sector_economico>>, <<<<CellPesca>>>>)),
     NoFile}

RawAdhesionBySize ==
    {File(Frame(<<H_tamano_empresa, H_empresas, H_instalacion>>,
                <<<<StrCell(V_PEQUENA), IntCell(4), IntCell(6)>>,
                  <<StrCell(Lower(V_PEQUENA)), IntCell(1), IntCell(1)>>,
                  <<StrCell(<<"o", "t", "r", "a">>), IntCell(9), IntCell(9)>>,
                  <<NA, IntCell(2), IntCell(2)>>>>)),
     File(Frame(<<H_tamano_empresa, H_instalacion>>,
                <<<<StrCell(V_MICRO), IntCell(6)>>>>)),
     NoFile}

RawFiles(config) ==
    CASE config.name = "adhesion_by_year" -> RawAdhesionByYear
      [] config.name = "adhesion_by_sector" -> RawAdhesionBySector
      [] config.name = "adhesion_by_size" -> RawAdhesionBySize
      [] config.name = "certification_by_year" -> RawCertificationByYear
      [] config.name = "certification_by_sector" -> RawCertificationBySector

\* The variables a specification does not use keep these values.
\* No DatasetPipeline runs beside the coordinator's loop.
NoRunners == <<>>

NamesIdle == header = <<>> /\ history = <<>>
StepsIdle == tin = NoTable /\ tout = Ok(NoTable) /\ step = NoStep
RunIdle ==
    /\ sources = <<>> /\ disk = <<>> /\ pc = "idle" /\ ds = 0 /\ ti = 0
    /\ dataframe = NoTable /\ results = NoResults /\ err = "none"
    /\ runners = NoRunners

Init ==
    /\ runners = NoRunners
    /\ NamesIdle
    /\ StepsIdle
    /\ \E raw \in RawFiles(dataset_configs[1]) \X RawFiles(dataset_configs[2])
                     \X RawFiles(dataset_configs[3]) \X RawFiles(dataset_configs[4])
                     \X RawFiles(dataset_configs[5]) :
          sources = [p \in SourcePaths |->
                        raw[CHOOSE i \in 1..Len(dataset_configs) :
                                dataset_configs[i].source_path = p]]
    /\ disk = [p \in OutputPaths |-> <<>>]
    /\ pc = "extract"
    /\ ds = 1
    /\ ti = 1
    /\ dataframe = NoTable
    /\ results = NoResults
    /\ err = "none"

Next ==
    \/ Extract
    \/ Transform
    \/ Load
    \/ LoadFails
    \/ Return
    \/ BuildYearlySummary

Spec == Init /\ [][Next]_vars

(***************************************************************************)
(* SpecNames: to_snake applied to a raw header, then to its own output.    *)
(***************************************************************************)
HeaderChars == {"a", "A", "á", "Á", "ñ", " ", "-", "_", "\t"}

RECURSIVE SeqsUpTo(_, _)
SeqsUpTo(S, n) ==
    IF n = 0 THEN {<<>>}
    ELSE LET shorter == SeqsUpTo(S, n - 1)
         IN  shorter \cup {Append(s, c) : s \in shorter, c \in S}

NamesInit ==
    /\ header \in SeqsUpTo(HeaderChars, MaxLen)
    /\ history = <<>>
    /\ StepsIdle
    /\ RunIdle

\* One more application of the normalizer, to the last name produced.
Normalize ==
    /\ Len(history) < 2
    /\ history' = Append(history,
                         to_snake(IF history = <<>> THEN header
                                  ELSE history[Len(history)]))
    /\ UNCHANGED <<runners, header, tin, tout, step, sources, disk, pc, ds, ti, dataframe, results, err>>

NamesNext == Normalize

SpecNames == NamesInit /\ [][NamesNext]_vars

\* C1: applying the column-name normalizer to its own output returns that
\* output unchanged, for every input header.
C1_Idempotent == Len(history) = 2 => history[2] = history[1]


(***************************************************************************)
(* SpecSteps: one transformation applied to one frame.                     *)
(***************************************************************************)
ColA == <<"a">>
ColB == <<"b">>
ColC == <<"c">>
ColUpperA == <<"A">>

StepLayouts == {<<>>, <<ColA>>, <<ColA, ColB>>, <<ColB, ColA>>, <<ColUpperA, ColA>>}

StepCells == {NA, IntCell(1), IntCell(2), StrCell(<<"x">>)}

StepFrames ==
    UNION {{Frame(cols, rows) :
               rows \in SeqsUpTo([1..Len(cols) -> StepCells], MaxRows)} :
           cols \in StepLayouts}

StepMappings ==
    {ColA :> ColC, ColA :> ColB, ColC :> ColA, ColA :> ColC @@ ColB :> ColA}

StepsInit ==
    /\ NamesIdle
    /\ RunIdle
    /\ tin \in StepFrames
    /\ tout = Ok(NoTable)
    /\ step = NoStep

\* transformation(dataframe) for one transformation t: tout is what the call
\* returned or raised, tin the argument object after it.
ApplyStep(t) ==
    /\ step = NoStep
    /\ step' = t
    /\ \E r \in Apply(t, tin) : tout' = r
    /\ tin' = ArgumentAfter(t, tin)
    /\ UNCHANGED <<runners, header, history, sources, disk, pc, ds, ti, dataframe, results, err>>

StepDropColumns == ApplyStep(DropColumns)
StepDropRows == ApplyStep(DropRows)
StepStandardize == ApplyStep(Standardize)
\* The transformations each step is tried with, built by the factories.
StepRenamers == {make_column_renamer(m) : m \in StepMappings}
StepNumericFilters == {make_numeric_row_filter(c) : c \in {ColA, ColB}}
StepIntegerColumns == {make_integer_column(c) : c \in {ColA, ColB}}
StepIntegerEnforcers == {make_integer_enforcer(cs) : cs \in {<<ColA>>, <<ColA, ColB>>}}
StepSorters == {make_sorter(c, asc) : c \in {ColA, ColB}, asc \in BOOLEAN}
StepNonNullFilters == {make_non_null_filter(cs) : cs \in {<<ColA>>, <<ColA, ColB>>}}
StepValueFilters == {make_value_filter(ColA, <<<<"X">>>>)}

StepRename == \E t \in StepRenamers : ApplyStep(t)
StepNumericFilter == \E t \in StepNumericFilters : ApplyStep(t)
StepIntegerColumn == \E t \in StepIntegerColumns : ApplyStep(t)
StepIntegerEnforcer == \E t \in StepIntegerEnforcers : ApplyStep(t)
StepSorter == \E t \in StepSorters : ApplyStep(t)
StepNonNullFilter == \E t \in StepNonNullFilters : ApplyStep(t)
StepValueFilter == \E t \in StepValueFilters : ApplyStep(t)

StepsNext ==
    \/ StepDropColumns
    \/ StepDropRows
    \/ StepStandardize
    \/ StepRename
    \/ StepNumericFilter
    \/ StepIntegerColumn
    \/ StepIntegerEnforcer
    \/ StepSorter
    \/ StepNonNullFilter
    \/ StepValueFilter

SpecSteps == StepsInit /\ [][StepsNext]_vars

(***************************************************************************)
(* SpecMerge: run_etl from the point where pipeline.run() has returned,    *)
(* over the results the two by-year chains can return: the three columns   *)
(* year, installations and companies, all integers, rows ordered by year.  *)
(***************************************************************************)
\* The rows of the by-year results: year, installations, companies.
AdhesionRows ==
    {<<IntCell(2010), IntCell(5), IntCell(3)>>,
     <<IntCell(2010), IntCell(0), IntCell(0)>>,
     <<IntCell(2011), IntCell(5), IntCell(3)>>}

CertificationRows ==
    {<<IntCell(2011), IntCell(2), IntCell(1)>>,
     <<IntCell(2011), IntCell(4), IntCell(0)>>,
     <<IntCell(2012), IntCell(2), IntCell(1)>>}

\* What a by-year chain returns: its last step sorted the rows by year.
ByYearFrames(rowset) ==
    {Frame(<<N_year, N_installations, N_companies>>, rows) :
        rows \in {r \in SeqsUpTo(rowset, MaxYearRows) :
                     \A i \in 1..(Len(r) - 1) : r[i][1].n <= r[i + 1][1].n}}

AdhesionFrames == ByYearFrames(AdhesionRows)
CertificationFrames == ByYearFrames(CertificationRows)

SectorResult == Frame(<<N_sector, N_installations>>, <<<<CellAgro, IntCell(7)>>>>)
SizeResult ==
    Frame(<<N_company_size, N_companies, N_installations>>,
          <<<<StrCell(V_MICRO), IntCell(4), IntCell(6)>>>>)

ResultFrames(adhesion, certification) ==
    [n \in DatasetNames |->
        CASE n = "adhesion_by_year" -> adhesion
          [] n = "certification_by_year" -> certification
          [] n = "adhesion_by_size" -> SizeResult
          [] OTHER -> SectorResult]

MergeInit ==
    /\ runners = NoRunners
    /\ NamesIdle
    /\ StepsIdle
    /\ \E adhesion \in AdhesionFrames, certification \in CertificationFrames :
          LET frames == ResultFrames(adhesion, certification)
          IN  /\ results = [n \in DatasetNames |->
                              DatasetResult(n, frames[n], Path(OutputDir, n))]
              /\ disk = [p \in OutputPaths |->
                            IF p = YearlySummaryPath THEN <<>>
                            ELSE <<Csv(frames[p.stem])>>]
              /\ dataframe = frames[dataset_configs[Len(dataset_configs)].name]
    /\ sources = [p \in SourcePaths |-> NoFile]
    /\ pc = "merge"
    /\ ds = Len(dataset_configs)
    /\ ti = Len(dataset_configs[Len(dataset_configs)].transformations) + 1
    /\ err = "none"

MergeNext == BuildYearlySummary

SpecMerge == MergeInit /\ [][MergeNext]_vars

(***************************************************************************)
(* Claims about the merger (SpecMerge)                                     *)
(***************************************************************************)
Range(seq) == {seq[i] : i \in 1..Len(seq)}

AdhesionResult == results["adhesion_by_year"].dataframe
CertificationResult == results["certification_by_year"].dataframe

\* The yearly_summary.csv this run wrote.
Summary == disk[YearlySummaryPath][Len(disk[YearlySummaryPath])]
SummaryWritten == pc = "done" /\ disk[YearlySummaryPath] # <<>>

\* The values of a frame's (or file's) column, as a set, and row by row.
CellAt(frame, i, name) ==
    frame.rows[i][CHOOSE j \in 1..Len(frame.cols) : frame.cols[j] = name]
YearsOf(frame) == {CellAt(frame, i, N_year).n : i \in 1..Len(frame.rows)}
RowsOfYear(frame, y) == {i \in 1..Len(frame.rows) : CellAt(frame, i, N_year).n = y}

\* C2: the years of the merged summary are exactly the years of the two
\* by-year inputs, and the summary has exactly one row for each of them.
C2_OneRowPerYear ==
    SummaryWritten =>
        /\ YearsOf(Summary) = YearsOf(AdhesionResult) \cup YearsOf(CertificationResult)
        /\ \A y \in YearsOf(AdhesionResult) \cup YearsOf(CertificationResult) :
              Cardinality(RowsOfYear(Summary, y)) = 1

\* C3: a year that only one by-year input has is in the summary, and every
\* summary row of that year holds the integer 0 in the installations and
\* companies columns of the side that lacks the year.
C3_ZeroFill ==
    SummaryWritten =>
        /\ \A y \in YearsOf(AdhesionResult) \ YearsOf(CertificationResult) :
              /\ RowsOfYear(Summary, y) # {}
              /\ \A i \in RowsOfYear(Summary, y) :
                    /\ CellAt(Summary, i, N_installations_certification) = IntCell(0)
                    /\ CellAt(Summary, i, N_companies_certification) = IntCell(0)
        /\ \A y \in YearsOf(CertificationResult) \ YearsOf(AdhesionResult) :
              /\ RowsOfYear(Summary, y) # {}
              /\ \A i \in RowsOfYear(Summary, y) :
                    /\ CellAt(Summary, i, N_installations_adhesion) = IntCell(0)
                    /\ CellAt(Summary, i, N_companies_adhesion) = IntCell(0)

\* A summary was written from inputs that each have a year the other lacks.
C3_Witness ==
    /\ SummaryWritten
    /\ YearsOf(AdhesionResult) \ YearsOf(CertificationResult) # {}
    /\ YearsOf(CertificationResult) \ YearsOf(AdhesionResult) # {}
    /\ YearsOf(CertificationResult) \cap YearsOf(AdhesionResult) # {}

(***************************************************************************)
(* Claims about the run (Spec)                                             *)
(***************************************************************************)
ByYearNames == {"adhesion_by_year", "certification_by_year"}

\* C4: the merger is reached, and a summary written, only when both by-year
\* results exist; a run that failed without one of them wrote no summary,
\* carries the exception and takes no further step.
C4_MergeNeedsBothResults ==
    /\ (pc \in {"merge", "done"} \/ disk[YearlySummaryPath] # <<>>)
           => ByYearNames \subseteq DOMAIN results
    /\ (pc = "failed" /\ ~(ByYearNames \subseteq DOMAIN results))
           => /\ disk[YearlySummaryPath] = <<>>
              /\ err # "none"
              /\ ~ENABLED Next

\* certification_by_year failed after adhesion_by_year had returned.
C4_Witness ==
    /\ pc = "failed"
    /\ Config.name = "certification_by_year"
    /\ "adhesion_by_year" \in DOMAIN results
    /\ "certification_by_year" \notin DOMAIN results

\* The transformation about to be applied raises.
NextTransformationRaises ==
    /\ pc = "transform"
    /\ \A r \in Apply(Config.transformations[ti], dataframe) : r.err # "none"

\* C5: when extraction or a transformation raises, the run fails there with
\* nothing written and no result stored for that dataset, and no step
\* follows a failure; the destination is written only from the load state,
\* reached after the last transformation.
C5_FailingStepAborts ==
    [][/\ ((pc = "extract" /\ ~sources[Config.source_path].exists)
              \/ NextTransformationRaises)
          => /\ pc' = "failed"
             /\ disk' = disk
             /\ results' = results
             /\ disk'[Config.output_path] = <<>>
             /\ Config.name \notin DOMAIN results'
       /\ pc # "failed"
       /\ disk'[Config.output_path] # disk[Config.output_path]
          => /\ pc = "load"
             /\ ti = Len(Config.transformations) + 1]_vars

\* A transformation after the first raised, in the second dataset.
C5_Witness ==
    /\ pc = "failed"
    /\ err \notin {"FileNotFoundError", "OSError"}
    /\ ti > 1
    /\ Config.name = "adhesion_by_sector"
    /\ disk[Config.output_path] = <<>>

\* DatasetPipeline.run's loop over the remaining transformations: the set of
\* results of the chain on a frame.
RECURSIVE RunChain(_, _)
RunChain(transformations, frame) ==
    IF transformations = <<>> THEN {Ok(frame)}
    ELSE UNION {IF r.err # "none" THEN {r}
                ELSE RunChain(Tail(transformations), r.df) :
                r \in Apply(Head(transformations), frame)}

\* The descriptor's own source can be read and its chain raises nothing.
RunsAlone(config) ==
    /\ sources[config.source_path].exists
    /\ \A r \in RunChain(config.transformations, sources[config.source_path].df) :
          r.err = "none"

\* C6: when a descriptor's run fails, every other descriptor whose own run
\* raises nothing has still been run and its output written.
C6_FailureIsolation ==
    (pc = "failed" /\ Config.name \notin DOMAIN results)
        => \A i \in 1..Len(dataset_configs) :
              (i # ds /\ RunsAlone(dataset_configs[i]))
                  => /\ disk[dataset_configs[i].output_path] # <<>>
                     /\ dataset_configs[i].name \in DOMAIN results

Required(t) == IF t.kind = "enforce" THEN Range(t.columns) ELSE {t.column}

\* C9: a rename whose mapping has a key that labels no column raises
\* nothing and leaves the rows and every unmapped label as they were; the
\* later numeric filter, integer cast, enforcer or sorter that needs a label
\* the frame does not have raises KeyError there, which ends the run.
C9_AbsentKeySurfacesLater ==
    [][/\ (/\ pc = "transform"
           /\ Config.transformations[ti].kind = "rename"
           /\ ~(DOMAIN Config.transformations[ti].mapping \subseteq Range(dataframe.cols)))
          => /\ pc' # "failed"
             /\ err' = "none"
             /\ dataframe'.rows = dataframe.rows
             /\ Len(dataframe'.cols) = Len(dataframe.cols)
             /\ \A j \in 1..Len(dataframe.cols) :
                   dataframe.cols[j] \notin DOMAIN Config.transformations[ti].mapping
                       => dataframe'.cols[j] = dataframe.cols[j]
       /\ (/\ pc = "transform"
           /\ Config.transformations[ti].kind \in {"filter_rows", "cast", "enforce", "sort"}
           /\ ~(Required(Config.transformations[ti]) \subseteq Range(dataframe.cols)))
          => /\ pc' = "failed"
             /\ err' = "KeyError"
             /\ ds' = ds
             /\ ti' = ti
       /\ pc # "failed"]_vars

\* adhesion_by_year: the export has no year header, the renamer (4th) went
\* through, and the numeric row filter (5th) raised for "year".
C9_Witness ==
    /\ pc = "failed"
    /\ err = "KeyError"
    /\ Config.name = "adhesion_by_year"
    /\ ti = 5
    /\ Config.transformations[ti].kind = "filter_rows"
    /\ Config.transformations[ti - 1].kind = "rename"
    /\ N_year \notin Range(dataframe.cols)

(***************************************************************************)
(* Claims about the transformations (SpecSteps)                            *)
(***************************************************************************)
Applied(kinds) == step.kind \in kinds /\ tout.err = "none"

\* The one arrangement in which rows whose keys compare equal keep their
\* input order.
RECURSIVE StableArrangement(_, _, _)
StableArrangement(rows, j, ascending) ==
    IF rows = <<>> THEN <<>>
    ELSE LET isFirst(i) == \A q \in 1..Len(rows) : ~KeyBefore(rows[q][j], rows[i][j], ascending)
             i == CHOOSE i \in 1..Len(rows) :
                     isFirst(i) /\ \A i2 \in 1..(i - 1) : ~isFirst(i2)
         IN  <<rows[i]>> \o StableArrangement(SubSeq(rows, 1, i - 1)
                                                 \o SubSeq(rows, i + 1, Len(rows)),
                                             j, ascending)

\* C7: the sorter returns the rows in the stable order: rows with equal
\* keys are in their input order.
C7_SortStable ==
    Applied({"sort"}) =>
        LET j == CHOOSE j \in ColPositions(tin, step.column) : TRUE
        IN  tout.df.rows =
                StableArrangement(SelectSeq(tin.rows, LAMBDA r : ~IsNa(r[j])),
                                  j, step.ascending)
                    \o SelectSeq(tin.rows, LAMBDA r : IsNa(r[j]))

NeverMore ==
    Applied({"drop_completely_empty_columns", "drop_completely_empty_rows"}) =>
        /\ Len(tout.df.rows) <= Len(tin.rows)
        /\ Len(tout.df.cols) <= Len(tin.cols)

\* C8 as stated: drop-empty-columns and drop-empty-rows never add a row or
\* a column, and every other transformation of the chains except the numeric
\* row filter and the categorical filter returns as many rows as it was given.
C8_RowCountOriginal ==
    /\ NeverMore
    /\ Applied({"standardize_column_names", "rename", "cast", "enforce", "sort",
                "drop_nulls"})
           => Len(tout.df.rows) = Len(tin.rows)

\* C8 amended: the non-null filter is a third exception; like the two other
\* filters it returns at most as many rows as it was given.
C8_RowCount ==
    /\ NeverMore
    /\ Applied({"standardize_column_names", "rename", "cast", "enforce", "sort"})
           => Len(tout.df.rows) = Len(tin.rows)
    /\ Applied({"drop_nulls", "filter_rows", "filter_values"})
           => Len(tout.df.rows) <= Len(tin.rows)

\* The integer cast kept a row whose value does not parse.
C8_Witness ==
    /\ Applied({"cast"})
    /\ Len(tout.df.rows) = 2
    /\ \E i \in 1..Len(tin.rows) : IsNa(ToNumeric(Column(tin, step.column)[i]))

\* C10: the renamer returns the same rows under the same row labels, with
\* as many columns in the same order: a column whose label is a key of the
\* mapping carries the mapped label, every other column its own.
C10_RenameExact ==
    step.kind = "rename" =>
        /\ tout.err = "none"
        /\ tout.df.rows = tin.rows
        /\ tout.df.index = tin.index
        /\ Len(tout.df.cols) = Len(tin.cols)
        /\ \A j \in 1..Len(tin.cols) :
              /\ tin.cols[j] \in DOMAIN step.mapping
                    => tout.df.cols[j] = step.mapping[tin.cols[j]]
              /\ tin.cols[j] \notin DOMAIN step.mapping
                    => tout.df.cols[j] = tin.cols[j]

\* A frame with a mapped and an unmapped column and some rows was renamed
\* by a mapping that also has a key the frame lacks.
C10_Witness ==
    /\ step.kind = "rename"
    /\ tin.cols = <<ColUpperA, ColA>>
    /\ step.mapping = (ColA :> ColC @@ ColB :> ColA)
    /\ tout.df.cols = <<ColUpperA, ColC>>
    /\ Len(tin.rows) = 2

(***************************************************************************)
(* SpecCells: the cell-wise transformations (numeric row filter, integer   *)
(* cast and enforcer, categorical filter) on frames whose column "a" holds *)
(* every kind of value a column can hold.                                  *)
(***************************************************************************)
MaxCellRows == 2

CellValues ==
    {NA, IntCell(1), FloatCell(25), InfCell,
     StrCell(<<"2">>), StrCell(<<"x">>), StrCell(<<"X">>)}

CellRows ==
    {<<a>> : a \in CellValues}
        \cup {<<b, a>> : b \in {NA, StrCell(<<"2">>)}, a \in CellValues}

CellFrames ==
    {Frame(IF Len(rows[1]) = 1 THEN <<ColA>> ELSE <<ColB, ColA>>, rows) :
        rows \in {q \in SeqsUpTo(CellRows, MaxCellRows) :
                     q # <<>> /\ \A i \in 1..Len(q) : Len(q[i]) = Len(q[1])}}
        \cup {Frame(<<ColA>>, <<>>)}

AllowLists == {<<<<"X">>>>, <<<<"x">>, <<"2">>>>}

CellsInit ==
    /\ NamesIdle
    /\ RunIdle
    /\ tin \in CellFrames
    /\ tout = Ok(NoTable)
    /\ step = NoStep

CellValueFilters == {make_value_filter(ColA, allowed) : allowed \in AllowLists}

CellsValueFilter == \E t \in CellValueFilters : ApplyStep(t)

CellsNext ==
    \/ StepNumericFilter
    \/ StepIntegerColumn
    \/ StepIntegerEnforcer
    \/ CellsValueFilter

SpecCells == CellsInit /\ [][CellsNext]_vars

\* The positions of tin's rows that satisfy Keep, in input order.
RECURSIVE KeptFrom(_, _)
KeptFrom(Keep(_), i) ==
    IF i > Len(tin.rows) THEN <<>>
    ELSE (IF Keep(i) THEN <<i>> ELSE <<>>) \o KeptFrom(Keep, i + 1)

\* tout is tin restricted to the rows that satisfy Keep: same columns, the
\* kept rows cell for cell, in input order, under their input row labels.
ReturnsExactly(Keep(_)) ==
    LET kept == KeptFrom(Keep, 1)
    IN  /\ tout.df.cols = tin.cols
        /\ tout.df.rows = [i \in 1..Len(kept) |-> tin.rows[kept[i]]]
        /\ tout.df.index = [i \in 1..Len(kept) |-> tin.index[kept[i]]]

\* The value of tin's row i in the step's column.
StepCell(i) == tin.rows[i][CHOOSE j \in ColPositions(tin, step.column) : TRUE]

\* A value that is a number, or text that reads as one.
ParsesAsNumber(c) ==
    \/ c.k \in {"int", "float", "inf"}
    \/ c.k = "str" /\ ~IsNa(ParseNumber(c.s))

\* C11: the numeric row filter returns exactly the rows whose value in the
\* named column parses as a number, with every cell as it was and in input
\* order; rows with text, a missing value or an unparsable value are gone.
C11_NumericFilterExact ==
    Applied({"filter_rows"}) =>
        ReturnsExactly(LAMBDA i : ParsesAsNumber(StepCell(i)))

\* A numeric text was kept as text and a non-numeric row was dropped.
C11_Witness ==
    /\ Applied({"filter_rows"})
    /\ Len(tin.rows) = 2
    /\ StepCell(1) = StrCell(<<"x">>)
    /\ StepCell(2) = StrCell(<<"2">>)
    /\ tout.df.rows = <<tin.rows[2]>>

\* The columns a cast or an enforcer targets.
Targeted == IF step.kind = "enforce" THEN Range(step.columns) ELSE {step.column}

\* C12: given a frame that has each targeted column, the integer cast and
\* the integer enforcer raise nothing whatever the cells hold, return as
\* many rows as they were given, and leave a whole number in every cell of
\* every targeted column.
C12_CoercionTotal ==
    (/\ step.kind \in {"cast", "enforce"}
     /\ \A c \in Targeted : Cardinality(ColPositions(tin, c)) = 1)
        => /\ tout.err = "none"
           /\ Len(tout.df.rows) = Len(tin.rows)
           /\ \A c \in Targeted : \A i \in 1..Len(tout.df.rows) :
                 Column(tout.df, c)[i].k = "int"

\* Row i's value in the step's column reads, in lowercase, as the
\* lowercase of a label of the step's allow-list (kept in step.columns).
MatchesAllowList(i) ==
    \E a \in 1..Len(step.columns) :
        Lower(StrOf(StepCell(i))) = Lower(step.columns[a])

\* C13: the categorical filter returns exactly the rows whose value, in
\* lowercase, equals the lowercase of a label of the allow-list, with every
\* cell as it was (the value keeps its own case) and in input order.
C13_ValueFilterExact ==
    Applied({"filter_values"}) => ReturnsExactly(MatchesAllowList)

\* Both case variants of a label were kept, each in its own case.
C13_Witness ==
    /\ Applied({"filter_values"})
    /\ step.columns = <<<<"X">>>>
    /\ Len(tin.rows) = 2
    /\ StepCell(1) = StrCell(<<"x">>)
    /\ StepCell(2) = StrCell(<<"X">>)
    /\ tout.df.rows = tin.rows

\* run_etl is past pipeline.run(): all descriptors have returned.
AllReturned == Cardinality(DOMAIN results) = Len(dataset_configs)

\* C14: whatever the two by-year chains returned, the merger does not fail
\* and the summary it writes has exactly the five columns year,
\* installations_adhesion, companies_adhesion, installations_certification
\* and companies_certification, with an integer in every cell.
C14_FiveIntegerColumns ==
    /\ ~(AllReturned /\ pc = "failed")
    /\ SummaryWritten =>
          /\ Len(Summary.cols) = Len(int_columns)
          /\ Range(Summary.cols) = Range(int_columns)
          /\ \A i \in 1..Len(Summary.rows) : \A j \in 1..Len(Summary.cols) :
                Summary.rows[i][j].k = "int"

(***************************************************************************)
(* Claims about the normalizer's output (SpecNames)                        *)
(***************************************************************************)
UpperLetters ==
    {"A", "B", "C", "D", "E", "F", "G", "H", "I", "J", "K", "L", "M", "N", "O",
     "P", "Q", "R", "S", "T", "U", "V", "W", "X", "Y", "Z",
     "Á", "É", "Í", "Ó", "Ú", "Ñ"}

NotInNames == UpperLetters \cup {" ", "-", "á", "é", "í", "ó", "ú", "ñ"}

Canonical(name) ==
    /\ \A i \in 1..Len(name) : name[i] \notin NotInNames
    /\ \A i \in 1..(Len(name) - 1) : ~(name[i] = "_" /\ name[i + 1] = "_")
    /\ name # <<>> => (name[1] # "_" /\ name[Len(name)] # "_")

\* C15: for every header, the normalizer's output has no uppercase letter,
\* no space, no hyphen, none of the letters á é í ó ú ñ, no two underscores
\* in a row and no underscore at either end; "Año Adhesión Establecimiento"
\* comes out as "ano_adhesion_establecimiento".
C15_CanonicalNames ==
    /\ Len(history) >= 1 => Canonical(history[1])
    /\ to_snake(H_ano_adhesion) = N_ano_adhesion_establecimiento

\* An uppercase accented letter, a hyphen and an ñ were normalized.
C15_Witness ==
    /\ header = <<"Á", "-", "ñ">>
    /\ Len(history) >= 1
    /\ history[1] = <<"a", "_", "n">>

(***************************************************************************)
(* SpecAnyOrder: the five DatasetPipeline objects that                     *)
(* _build_dataset_pipeline creates, each running DatasetPipeline.run on    *)
(* its own extractor, transformations and loader, their reads and writes  *)
(* interleaved in any order; then run_etl's merger.  The exports are ones  *)
(* every chain accepts.                                                    *)
(***************************************************************************)
Runner(at, next, frame) == [pc |-> at, ti |-> next, dataframe |-> frame]

\* The exports of a descriptor that its chain accepts.
GoodFiles(config) ==
    {f \in RawFiles(config) :
        /\ f.exists
        /\ \A r \in RunChain(config.transformations, f.df) : r.err = "none"}

AnyOrderInit ==
    /\ NamesIdle
    /\ StepsIdle
    /\ \E raw \in GoodFiles(dataset_configs[1]) \X GoodFiles(dataset_configs[2])
                     \X GoodFiles(dataset_configs[3]) \X GoodFiles(dataset_configs[4])
                     \X GoodFiles(dataset_configs[5]) :
          sources = [p \in SourcePaths |->
                        raw[CHOOSE i \in 1..Len(dataset_configs) :
                                dataset_configs[i].source_path = p]]
    /\ disk = [p \in OutputPaths |-> <<>>]
    /\ runners = [i \in 1..Len(dataset_configs) |-> Runner("extract", 1, NoTable)]
    /\ pc = "run"
    /\ ds = 0
    /\ ti = 0
    /\ dataframe = NoTable
    /\ results = NoResults
    /\ err = "none"

\* DatasetPipeline.run of descriptor i: dataframe = self._extractor.extract()
RunnerExtract(i) ==
    /\ pc = "run"
    /\ runners[i].pc = "extract"
    /\ LET config == dataset_configs[i]
       IN  IF sources[config.source_path].exists
           THEN /\ runners' = [runners EXCEPT ![i] =
                       Runner(IF config.transformations = <<>> THEN "load" ELSE "transform",
                              1, sources[config.source_path].df)]
                /\ UNCHANGED <<pc, err>>
           ELSE /\ runners' = [runners EXCEPT ![i].pc = "failed"]
                /\ pc' = "failed"
                /\ err' = "FileNotFoundError"
    /\ UNCHANGED <<header, history, tin, tout, step, sources, disk, ds, ti, dataframe, results>>

\* for transformation in self._transformations:
\*     dataframe = transformation(dataframe)
\* The loop works on the runner's local dataframe only, so it is one step
\* here; RunChain applies the transformations one after the other.
RunnerTransform(i) ==
    /\ pc = "run"
    /\ runners[i].pc = "transform"
    /\ LET config == dataset_configs[i]
       IN  \E r \in RunChain(config.transformations, runners[i].dataframe) :
              IF r.err = "none"
              THEN /\ runners' = [runners EXCEPT ![i] =
                          Runner("load", Len(config.transformations) + 1, r.df)]
                   /\ UNCHANGED <<pc, err>>
              ELSE /\ runners' = [runners EXCEPT ![i].pc = "failed"]
                   /\ pc' = "failed"
                   /\ err' = r.err
    /\ UNCHANGED <<header, history, tin, tout, step, sources, disk, ds, ti, dataframe, results>>

\* Variant in which every loader writes the first descriptor's destination.
RunnerLoad_SharedDestination(i) ==
    /\ pc = "run"
    /\ runners[i].pc = "load"
    /\ disk' = [disk EXCEPT ![dataset_configs[1].output_path] =
                   Append(@, Csv(runners[i].dataframe))]
    /\ runners' = [runners EXCEPT ![i].pc = "return"]
    /\ UNCHANGED <<header, history, tin, tout, step, sources, pc, ds, ti, dataframe, results, err>>

\* self._loader.load(dataframe)
RunnerLoad(i) ==
    /\ pc = "run"
    /\ runners[i].pc = "load"
    /\ disk' = [disk EXCEPT ![dataset_configs[i].output_path] =
                   Append(@, Csv(runners[i].dataframe))]
    /\ runners' = [runners EXCEPT ![i].pc = "return"]
    /\ UNCHANGED <<header, history, tin, tout, step, sources, pc, ds, ti, dataframe, results, err>>

\* return DatasetResult(...), stored as results[dataset_name]
RunnerReturn(i) ==
    /\ pc = "run"
    /\ runners[i].pc = "return"
    /\ results' = (dataset_configs[i].name :>
                      DatasetResult(dataset_configs[i].output_path.stem,
                                    runners[i].dataframe,
                                    dataset_configs[i].output_path))
                      @@ results
    /\ runners' = [runners EXCEPT ![i].pc = "done"]
    /\ UNCHANGED <<header, history, tin, tout, step, sources, disk, pc, ds, ti, dataframe, err>>

\* pipeline.run() returns to run_etl once every descriptor has returned.
RunReturns ==
    /\ pc = "run"
    /\ \A i \in 1..Len(dataset_configs) : runners[i].pc = "done"
    /\ pc' = "merge"
    /\ UNCHANGED <<header, history, tin, tout, step, sources, disk, ds, ti, dataframe, results,
                   err, runners>>

AnyOrderNext ==
    \/ \E i \in 1..Len(dataset_configs) : RunnerExtract(i)
    \/ \E i \in 1..Len(dataset_configs) : RunnerTransform(i)
    \/ \E i \in 1..Len(dataset_configs) : RunnerLoad(i)
    \/ \E i \in 1..Len(dataset_configs) : RunnerReturn(i)
    \/ RunReturns
    \/ BuildYearlySummary

SpecAnyOrder == AnyOrderInit /\ [][AnyOrderNext]_vars

\* The frames the sequential run can end with for descriptor i: its chain
\* applied to its own export.
SequentialFrames(i) ==
    {r.df : r \in {q \in RunChain(dataset_configs[i].transformations,
                                  sources[dataset_configs[i].source_path].df) :
                      q.err = "none"}}

\* The summaries the merger can write from the stored by-year results.
SequentialSummaries ==
    {Csv(r.df) : r \in {q \in build_yearly_summary(AdhesionResult, CertificationResult) :
                           q.err = "none"}}

\* C16: in whatever order the five runners' steps are taken, no run fails,
\* each destination is written once, by its own runner, with a table the
\* sequential run can produce from that descriptor's export, the stored
\* result holds that same table under the descriptor's name, and the
\* summary is one the merger produces from those results; no two of the six
\* destinations are the same file and none is a source.
C16_OrderInsignificant ==
    /\ pc # "failed"
    /\ Cardinality(OutputPaths) = Len(dataset_configs) + 1
    /\ OutputPaths \cap SourcePaths = {}
    /\ \A i \in DOMAIN runners :
          LET config == dataset_configs[i]
          IN  /\ runners[i].pc \in {"extract", "transform", "load"}
                    => disk[config.output_path] = <<>>
              /\ runners[i].pc \in {"return", "done"}
                    => /\ runners[i].dataframe \in SequentialFrames(i)
                       /\ disk[config.output_path] = <<Csv(runners[i].dataframe)>>
              /\ config.name \in DOMAIN results <=> runners[i].pc = "done"
              /\ runners[i].pc = "done"
                    => results[config.name] =
                           DatasetResult(config.name, runners[i].dataframe,
                                         config.output_path)
    /\ pc = "done" <=> disk[YearlySummaryPath] # <<>>
    /\ pc = "done" => /\ Len(disk[YearlySummaryPath]) = 1
                      /\ Summary \in SequentialSummaries

\* A later descriptor of the registry returned before the first one had
\* extracted, and the run completed.
C16_Witness ==
    /\ runners # NoRunners
    /\ runners[5].pc = "done"
    /\ runners[1].pc = "extract"
    /\ runners[3].pc = "load"
    /\ disk[dataset_configs[5].output_path] # <<>>

\* C17: when the coordinator's run has returned, the mapping has exactly
\* the five entries adhesion_by_year, adhesion_by_sector, adhesion_by_size,
\* certification_by_year and certification_by_sector, and the result under
\* each key records that key as its dataset_name and was produced by the
\* one descriptor of that name, for its destination.
C17_OneEntryPerDescriptor ==
    pc \in {"merge", "done"} =>
        /\ DOMAIN results = {"adhesion_by_year", "adhesion_by_sector", "adhesion_by_size",
                             "certification_by_year", "certification_by_sector"}
        /\ \A n \in DOMAIN results :
              /\ results[n].dataset_name = n
              /\ Cardinality({i \in 1..Len(dataset_configs) :
                                 dataset_configs[i].name = n}) = 1
              /\ \A i \in 1..Len(dataset_configs) :
                    dataset_configs[i].name = n
                        => /\ results[n].output_path = dataset_configs[i].output_path
                           /\ disk[dataset_configs[i].output_path]
                                  = <<Csv(results[n].dataframe)>>

\* The coordinator's run over the registry has returned to run_etl.
C17_Witness ==
    /\ pc = "merge"
    /\ ds = Len(dataset_configs)
    /\ Cardinality(DOMAIN results) = 5

\* How many times a row occurs in a sequence of rows.
Occurrences(rows, row) == Cardinality({i \in 1..Len(rows) : rows[i] = row})

\* The rows of after are those of before in some order, ordered by the
\* column at position j: any two adjacent keys are non-decreasing when
\* ascending and non-increasing when not, missing keys coming last.
OrderedPermutation(before, after, j, ascending) ==
    /\ Len(after) = Len(before)
    /\ \A i \in 1..Len(before) :
          Occurrences(after, before[i]) = Occurrences(before, before[i])
    /\ \A i \in 1..(Len(after) - 1) :
          /\ IsNa(after[i][j]) => IsNa(after[i + 1][j])
          /\ (~IsNa(after[i][j]) /\ ~IsNa(after[i + 1][j]))
                => IF ascending THEN ~CellLess(after[i + 1][j], after[i][j])
                   ELSE ~CellLess(after[i][j], after[i + 1][j])

\* C18: a sorter step that returns gives the runner the rows it had in an
\* order that is non-decreasing (ascending) or non-increasing (descending)
\* in the named column, labelled 0..n-1; the summary the merger writes is
\* non-decreasing in year, and the frame it writes is labelled 0..n-1.
C18_SortedAndRenumbered ==
    [][/\ (/\ pc = "transform"
           /\ Config.transformations[ti].kind = "sort"
           /\ pc' # "failed")
          => LET t == Config.transformations[ti]
                 j == CHOOSE j \in ColPositions(dataframe, t.column) : TRUE
             IN  /\ dataframe'.cols = dataframe.cols
                 /\ OrderedPermutation(dataframe.rows, dataframe'.rows, j, t.ascending)
                 /\ dataframe'.index = [i \in 1..Len(dataframe.rows) |-> i - 1]
       /\ (pc = "merge" /\ pc' = "done")
          => LET written == disk'[YearlySummaryPath][Len(disk'[YearlySummaryPath])]
             IN  /\ \A i \in 1..(Len(written.rows) - 1) :
                       CellAt(written, i, N_year).n <= CellAt(written, i + 1, N_year).n
                 /\ \A r \in build_yearly_summary(AdhesionResult, CertificationResult) :
                       r.err = "none"
                           => r.df.index = [i \in 1..Len(r.df.rows) |-> i - 1]]_vars

\* The descending sorter of certification_by_sector has moved the larger
\* count in front of the smaller one and renumbered the rows.
C18_Witness ==
    /\ pc = "load"
    /\ Config.name = "certification_by_sector"
    /\ Len(dataframe.rows) = 2
    /\ CellAt(dataframe, 1, N_installations) = IntCell(3)
    /\ CellAt(dataframe, 2, N_installations) = IntCell(0)
    /\ CellAt(sources[Config.source_path].df, 1,
              H_instalaciones_certificadas_por_sector) = NA
    /\ dataframe.index = <<0, 1>>

\* C19: a runner goes extract, transformation 1 .. k, load, return and no
\* other way: extraction gives it the export and puts it before step 1;
\* each step that returns turns the frame it had into a result of the
\* transformation at that position and moves it one position on; the
\* loader runs after step k, once, on the frame step k left, which it
\* appends to the destination and does not change; the result returned
\* holds that frame.
C19_LinearRunner ==
    [][LET k == Len(Config.transformations)
       IN  /\ pc = "extract"
              => /\ disk[Config.output_path] = <<>>
                 /\ pc' \in {"transform", "failed"}
                 /\ pc' = "transform"
                       => dataframe' = sources[Config.source_path].df /\ ti' = 1
           /\ pc = "transform"
              => /\ ti \in 1..k
                 /\ disk[Config.output_path] = <<>>
                 /\ pc' = "failed"
                    \/ /\ \E r \in Apply(Config.transformations[ti], dataframe) :
                             r.err = "none" /\ dataframe' = r.df
                       /\ ti' = ti + 1
                       /\ pc' = IF ti = k THEN "load" ELSE "transform"
           /\ pc = "load"
              => /\ ti = k + 1
                 /\ disk[Config.output_path] = <<>>
                 /\ pc' = "failed"
                    \/ /\ pc' = "return"
                       /\ disk'[Config.output_path] = <<Csv(dataframe)>>
                       /\ dataframe' = dataframe
           /\ pc = "return"
              => /\ disk[Config.output_path] = <<Csv(dataframe)>>
                 /\ results'[Config.name].dataframe = dataframe
                 /\ disk' = disk
                 /\ pc' \in {"extract", "merge"}
           /\ pc \in {"extract", "transform", "load", "return"} => ds' \in {ds, ds + 1}
           /\ ds' # ds => pc = "return" /\ pc' = "extract"]_vars

\* The runner of adhesion_by_size has loaded, after its eighth step, a frame
\* its steps made shorter than the export.
C19_Witness ==
    /\ pc = "return"
    /\ Config.name = "adhesion_by_size"
    /\ ti = 9
    /\ Len(dataframe.rows) = 2
    /\ Len(sources[Config.source_path].df.rows) = 4
    /\ disk[Config.output_path] = <<Csv(dataframe)>>

\* No column of the frame and no row of it has only missing values (a
\* column of no rows, and a row of no columns, has only missing values).
NothingEmpty(df) ==
    /\ \A j \in 1..Len(df.cols) : \E i \in 1..Len(df.rows) : ~IsNa(df.rows[i][j])
    /\ \A i \in 1..Len(df.rows) : \E j \in 1..Len(df.cols) : ~IsNa(df.rows[i][j])

\* C20: dropping the empty rows of what drop-empty-columns returned gives
\* the same frame as dropping the empty columns of what drop-empty-rows
\* returns, and that frame has no all-missing column and no all-missing row.
C20_DropsCommute ==
    /\ Applied({"drop_completely_empty_columns"})
          => /\ drop_completely_empty_rows(tout.df)
                    = drop_completely_empty_columns(drop_completely_empty_rows(tin).df)
             /\ NothingEmpty(drop_completely_empty_rows(tout.df).df)
    /\ Applied({"drop_completely_empty_rows"})
          => /\ drop_completely_empty_columns(tout.df)
                    = drop_completely_empty_rows(drop_completely_empty_columns(tin).df)
             /\ NothingEmpty(drop_completely_empty_columns(tout.df).df)

\* Drop-empty-columns removed the first column of a frame whose first row
\* then has only a missing value left.
C20_Witness ==
    /\ Applied({"drop_completely_empty_columns"})
    /\ tin.cols = <<ColA, ColB>>
    /\ tin.rows = <<<<NA, NA>>, <<NA, IntCell(1)>>>>
    /\ tout.df.rows = <<<<NA>>, <<IntCell(1)>>>>
    /\ drop_completely_empty_rows(tout.df).df.index = <<1>>

DistinctLabels(df) == Cardinality(Range(df.cols)) = Len(df.cols)

\* C22: given a frame whose labels are pairwise distinct, the name
\* standardizer and the renamer return a frame whose labels are pairwise
\* distinct.
C22_LabelsStayDistinct ==
    (Applied({"standardize_column_names", "rename"}) /\ DistinctLabels(tin))
        => DistinctLabels(tout.df)

\* The years that exactly one row of each by-year result carries.
YearsOnceInEach ==
    {y \in YearsOf(AdhesionResult) \cap YearsOf(CertificationResult) :
        /\ Cardinality(RowsOfYear(AdhesionResult, y)) = 1
        /\ Cardinality(RowsOfYear(CertificationResult, y)) = 1}

\* C23: for a year that one row of each by-year result carries, the
\* summary has one row, holding the adhesion row's installations and
\* companies in installations_adhesion and companies_adhesion and the
\* certification row's in installations_certification and
\* companies_certification.
C23_MeasurementsPreserved ==
    SummaryWritten =>
        \A y \in YearsOnceInEach :
            /\ Cardinality(RowsOfYear(Summary, y)) = 1
            /\ \A m \in RowsOfYear(Summary, y), a \in RowsOfYear(AdhesionResult, y),
                  c \in RowsOfYear(CertificationResult, y) :
                  /\ CellAt(Summary, m, N_installations_adhesion)
                        = CellAt(AdhesionResult, a, N_installations)
                  /\ CellAt(Summary, m, N_companies_adhesion)
                        = CellAt(AdhesionResult, a, N_companies)
                  /\ CellAt(Summary, m, N_installations_certification)
                        = CellAt(CertificationResult, c, N_installations)
                  /\ CellAt(Summary, m, N_companies_certification)
                        = CellAt(CertificationResult, c, N_companies)

\* 2011 is in one row of each result, with different counts on the two
\* sides, between a year only adhesion has and one only certification has.
C23_Witness ==
    /\ SummaryWritten
    /\ YearsOnceInEach = {2011}
    /\ YearsOf(Summary) = {2010, 2011, 2012}
    /\ \E m \in RowsOfYear(Summary, 2011) :
          CellAt(Summary, m, N_installations_adhesion)
              # CellAt(Summary, m, N_installations_certification)

\* The headers the by-year descriptor at position i expects in its export.
ExpectedHeaders(i) ==
    IF dataset_configs[i].name = "adhesion_by_year"
    THEN {H_ano_adhesion, H_instalaciones_adheridas, H_empresas_adheridas}
    ELSE {H_ano_certificacion, H_instalaciones_certificadas, H_empresas_certificadas}

\* The rows of an export whose value under the year header parses as a
\* number (such a row is not entirely empty).
RowsWithYear(export, i) ==
    LET yearHeader == IF dataset_configs[i].name = "adhesion_by_year"
                      THEN H_ano_adhesion ELSE H_ano_certificacion
    IN  {q \in 1..Len(export.rows) : ParsesAsNumber(CellAt(export, q, yearHeader))}

\* C24: once the run is past a by-year descriptor whose export has the
\* three expected headers, or has stopped in it for another reason than the
\* destination, the destination holds one table with one row per export row
\* whose year parses as a number, an integer in every year, installations
\* and companies cell, and the years in non-decreasing order.
C24_ByYearEndToEnd ==
    \A i \in {q \in 1..Len(dataset_configs) :
                 dataset_configs[q].name \in ByYearNames} :
        LET config == dataset_configs[i]
            export == sources[config.source_path]
            past == \/ ds > i
                    \/ ds = i /\ pc \in {"return", "merge", "done"}
                    \/ ds = i /\ pc = "failed" /\ err # "OSError"
        IN  (/\ pc # "idle"
             /\ export.exists
             /\ ExpectedHeaders(i) \subseteq Range(export.df.cols)
             /\ past)
                => /\ Len(disk[config.output_path]) = 1
                   /\ LET written == disk[config.output_path][1]
                      IN  /\ Len(written.rows)
                                = Cardinality(RowsWithYear(export.df, i))
                          /\ \A q \in 1..Len(written.rows) :
                                /\ CellAt(written, q, N_year).k = "int"
                                /\ CellAt(written, q, N_installations).k = "int"
                                /\ CellAt(written, q, N_companies).k = "int"
                          /\ \A q \in 1..(Len(written.rows) - 1) :
                                CellAt(written, q, N_year).n
                                    <= CellAt(written, q + 1, N_year).n

=============================================================================
